---- MODULE Spec2Model ----
(***************************************************************************)
(* The build command of snowpack (commands/build.ts): the two-pass crawl   *)
(* of the import graph, the package install between the passes, the        *)
(* watch-mode recrawl and the post-build steps.                            *)
(*                                                                         *)
(* A specifier or URL is a sequence of characters, so that startsWith is   *)
(* computed and not assumed.  A JavaScript Set is a sequence without       *)
(* duplicates, in insertion order, because [...set] depends on that order. *)
(* Process 0 is build(); processes 1..MaxEvents are the invocations of the *)
(* file-change handler registered with devServer.onFileChange.  A step of  *)
(* a process is the code it runs between two awaits, in one turn of the    *)
(* event loop.                                                             *)
(***************************************************************************)
EXTENDS Integers, Sequences, FiniteSets, TLC

\* ------------------------------------------------------------------ bounds

\* longest `imports` list one loadUrl call returns
MaxImports == 2
\* most files the mount scan finds (with repetitions: two mounts, one URL)
MaxMount == 2
\* most file-change notifications of a watch session
MaxEvents == 2

\* ------------------------------------------------------- strings and URLs

UrlA == <<"/", "a">>
UrlB == <<"/", "b">>
\* a URL under the package prefix
UrlPkgX == <<"/", "p", "/", "x">>
\* a bare module specifier
BareL == <<"l">>

\* the URLs getUrlsForFile gives for the mounted files
MountUrls == {UrlA, UrlB}
\* every specifier loadUrl may report as an import
Specifiers == {UrlA, UrlB, UrlPkgX, BareL}
AllUrls == {s \in Specifiers : s[1] = "/"}

\* path.posix.join(config.buildOptions.metaUrlPath, 'pkg/')
pkgUrlPrefix == <<"/", "p", "/">>

\* String.prototype.startsWith
StartsWith(s, prefix) ==
    /\ Len(s) >= Len(prefix)
    /\ \A i \in 1..Len(prefix) : s[i] = prefix[i]

Range(s) == {s[i] : i \in 1..Len(s)}

SeqsUpTo(S, n) == UNION {[1..k -> S] : k \in 0..n}

Last(s) == s[Len(s)]
Front(s) == SubSeq(s, 1, Len(s) - 1)

\* Set.prototype.has / Set.prototype.add on an insertion-ordered Set
SetHas(set, x) == \E i \in 1..Len(set) : set[i] = x

SetAdd(set, x) == IF SetHas(set, x) THEN set ELSE Append(set, x)

RECURSIVE NewSet(_)
\* new Set(iterable)
NewSet(list) ==
    IF list = <<>> THEN <<>> ELSE SetAdd(NewSet(Front(list)), Last(list))

\* ---------------------------------------------------------- collaborators

\* files the watcher reports
FilePaths == {"fb", "fab"}

\* getUrlsForFile(filePath, config): one URL per mount alias of the file
getUrlsForFile(filePath) ==
    IF filePath = "fb" THEN <<UrlB>> ELSE <<UrlA, UrlB>>

\* the import maps installPackages may return
ImportMaps == {"m1", "m2"}
Undefined == "undefined"

\* the callbacks a caller may register with onFileChange
Callbacks == {"cb1", "cb2"}
NoopCallback == "noop"

\* ------------------------------------------------------------------ state

Procs == 0..MaxEvents
Handlers == 1..MaxEvents

VARIABLES
    watch,                   \* config.buildOptions.watch
    allFileUrlsUnique,       \* DiscoveredSet, a Set in insertion order
    allFileUrlsToProcess,    \* WorkQueue, an array used as a stack
    allBareModuleSpecifiers, \* BareSpecifierSet, a Set in insertion order
    optimizedImportMap,      \* Undefined or the installer's import map
    onFileChangeCallback,    \* the single callback slot of a watch build
    pc,                      \* where build() is
    flush,                   \* per process: the flushFileQueue call it is in
    handler,                 \* per file-change event: the handler invocation
    seeds,                   \* history: the URLs of the mount scan
    pass1Imports,            \* history: what loadUrl returned per URL in pass 1, kept until pass 2 starts
    loads,                   \* history: loadUrl results per URL in the pass of build()
    writes,                  \* history: writeFile completions per URL in that pass
    written,                 \* the output tree: URLs with a written file
    skipped,                 \* history: URLs popped and skipped under ignorePkg
    installArgs,             \* history: the argument of every installer call
    installResults,          \* history: the import map of every installer return
    mapAssigns,              \* history: assignments to optimizedImportMap
    phases,                  \* history: the phases build() has entered, in order
    steps,                   \* history: the post-build steps build() has called, in order
    thrown,                  \* history: the methods of a non-watch result that have thrown
    disk,                    \* removeEmptyFolders: the directory tree on disk
    diskBefore,              \* history: the tree when removeEmptyFolders was called
    rmReturn,                \* "none" or what removeEmptyFolders(root) returned
    sourceFile,              \* transformFileImports: {baseExt, contents}
    replaceImport,           \* transformFileImports: the replace function
    transformed              \* "none" or the outcome of transformFileImports

vars == <<watch, allFileUrlsUnique, allFileUrlsToProcess,
          allBareModuleSpecifiers, optimizedImportMap, onFileChangeCallback,
          pc, flush, handler, seeds, pass1Imports, loads, writes, written,
          skipped, installArgs, installResults, mapAssigns, phases, steps, thrown, disk, diskBefore,
          rmReturn, sourceFile, replaceImport, transformed>>

buildVars == <<watch, allFileUrlsUnique, allFileUrlsToProcess,
               allBareModuleSpecifiers, optimizedImportMap,
               onFileChangeCallback, pc, flush, handler, seeds, pass1Imports,
               loads, writes, written, skipped, installArgs, installResults,
               mapAssigns, phases, steps, thrown>>
folderVars == <<disk, diskBefore, rmReturn>>
rewriteVars == <<sourceFile, replaceImport, transformed>>

config == <<watch, seeds>>

ImportLists == SeqsUpTo(Specifiers, MaxImports)
MountLists == SeqsUpTo(MountUrls, MaxMount)

\* a tree of the file system: the paths of its directories and of its files
NoDisk == [dirs |-> {}, files |-> {}]

\* removeEmptyFolders is not called
NoFolderCall ==
    /\ disk = NoDisk
    /\ diskBefore = NoDisk
    /\ rmReturn = "none"

NotTransformed == [st |-> "none", code |-> <<>>, calls |-> <<>>]

NoFile == [baseExt |-> "", contents |-> <<>>]

\* transformFileImports is not called
NoRewriteCall ==
    /\ sourceFile = NoFile
    /\ replaceImport = "identity"
    /\ transformed = NotTransformed

\* no flushFileQueue call
NoFlush ==
    [st |-> "none", url |-> <<>>, ignorePkg |-> FALSE, isResolve |-> FALSE,
     importMap |-> Undefined]

\* a handler invocation that has not happened
NoHandler ==
    [pc |-> "wait", filePath |-> "", flushes |-> 0, calls |-> <<>>,
     stale |-> {}]

InFlight == {"load", "mkdirp", "write"}

\* ------------------------------------------------------- flushFileQueue

\* faulty variant: the skip is missing
ShouldSkipMutNever(ignorePkg, fileUrl) == FALSE

\* faulty variant: the skip does not test ignorePkg
ShouldSkipMutAlways(ignorePkg, fileUrl) == StartsWith(fileUrl, pkgUrlPrefix)

\* if (ignorePkg && fileUrl.startsWith(pkgUrlPrefix)) continue
ShouldSkip(ignorePkg, fileUrl) ==
    ignorePkg /\ StartsWith(fileUrl, pkgUrlPrefix)

\* faulty variant: length > 1
KeepsLoopingMutOffByOne(queue) == Len(queue) > 1

\* while (allFileUrlsToProcess.length > 0)
KeepsLooping(queue) == Len(queue) > 0

RECURSIVE PopSkipped(_, _)
\* the pops of the while loop that end in `continue`
PopSkipped(queue, ignorePkg) ==
    IF KeepsLooping(queue) /\ ShouldSkip(ignorePkg, Last(queue))
    THEN PopSkipped(Front(queue), ignorePkg)
    ELSE queue

\* the loop from its head to the next await: the queue is empty and the call
\* returns, or a URL is popped and loadUrl(fileUrl, loadOptions) is called
LoopHead(queue, ignorePkg, loadOptions) ==
    LET rest == PopSkipped(queue, ignorePkg)
        opts == [ignorePkg |-> ignorePkg, isResolve |-> loadOptions.isResolve,
                 importMap |-> loadOptions.importMap]
    IN  [skipped |-> {queue[i] : i \in (Len(rest) + 1)..Len(queue)},
         queue   |-> IF KeepsLooping(rest) THEN Front(rest) ELSE rest,
         frame   |-> IF ~KeepsLooping(rest)
                     THEN [st |-> "ret", url |-> <<>>] @@ opts
                     ELSE [st |-> "load", url |-> Last(rest)] @@ opts]

IsLocal(importedUrl) == StartsWith(importedUrl, <<"/">>)

\* faulty variant: a local import is pushed without the has() test
ImportStepMutNoHas(importedUrl, s) ==
    IF ~IsLocal(importedUrl)
    THEN [s EXCEPT !.bare = SetAdd(@, importedUrl)]
    ELSE [s EXCEPT !.unique = SetAdd(@, importedUrl),
                   !.queue = Append(@, importedUrl)]

\* faulty variant: a local import is dropped
ImportStepMutNoAdd(importedUrl, s) ==
    IF ~IsLocal(importedUrl)
    THEN [s EXCEPT !.bare = SetAdd(@, importedUrl)]
    ELSE s

\* faulty variant: a bare import is dropped
ImportStepMutNoBare(importedUrl, s) ==
    IF ~IsLocal(importedUrl)
    THEN s
    ELSE IF ~SetHas(s.unique, importedUrl)
    THEN [s EXCEPT !.unique = SetAdd(@, importedUrl),
                   !.queue = Append(@, importedUrl)]
    ELSE s

\* the body of `for (const importedUrl of result.imports)`
ImportStep(importedUrl, s) ==
    IF ~IsLocal(importedUrl)
    THEN [s EXCEPT !.bare = SetAdd(@, importedUrl)]
    ELSE IF ~SetHas(s.unique, importedUrl)
    THEN [s EXCEPT !.unique = SetAdd(@, importedUrl),
                   !.queue = Append(@, importedUrl)]
    ELSE s

RECURSIVE AddImports(_, _)
\* for (const importedUrl of result.imports) { ... }
AddImports(imports, s) ==
    IF imports = <<>> THEN s
    ELSE AddImports(Tail(imports), ImportStep(Head(imports), s))

Sets == [unique |-> allFileUrlsUnique, queue |-> allFileUrlsToProcess,
         bare |-> allBareModuleSpecifiers]

\* -------------------------------------------------------------- build()

ZeroCount == [u \in AllUrls |-> 0]
NoImports == [u \in AllUrls |-> {}]

\* the state at line 112: the server is started, the mounts are scanned,
\* the two Sets and the queue are built
Init ==
    \E allFileUrls \in MountLists :
        /\ watch \in BOOLEAN
        /\ allFileUrlsUnique = NewSet(allFileUrls)
        /\ allFileUrlsToProcess = NewSet(allFileUrls)
        /\ allBareModuleSpecifiers = <<>>
        /\ optimizedImportMap = Undefined
        /\ onFileChangeCallback = NoopCallback
        /\ pc = "start"
        /\ flush = [p \in Procs |-> NoFlush]
        /\ handler = [i \in Handlers |-> NoHandler]
        /\ seeds = Range(allFileUrls)
        /\ pass1Imports = NoImports
        /\ loads = ZeroCount
        /\ writes = ZeroCount
        /\ written = {}
        /\ skipped = {}
        /\ installArgs = <<>>
        /\ installResults = <<>>
        /\ mapAssigns = 0
        /\ phases = <<"Mount-Scan">>
        /\ steps = <<>>
        /\ thrown = {}
        /\ NoFolderCall
        /\ NoRewriteCall

\* fs.writeFile has resolved for url: the handler invocations that are
\* crawling have an output file of url written since their event arrived
Freshen(hs, url) ==
    [i \in Handlers |->
        IF hs[i].pc = "flush" THEN [hs[i] EXCEPT !.stale = @ \ {url}] ELSE hs[i]]

\* faulty variant: the callback is called twice
CallCallbackMutTwice(h) ==
    [h EXCEPT !.pc = "callback",
              !.calls = @ \o <<[callback |-> onFileChangeCallback,
                                filePath |-> h.filePath],
                               [callback |-> onFileChangeCallback,
                                filePath |-> h.filePath]>>]

\* onFileChangeCallback({filePath}) is called by the handler invocation h
CallCallback(h) ==
    [h EXCEPT !.pc = "callback",
              !.calls = Append(@, [callback |-> onFileChangeCallback,
                                   filePath |-> h.filePath])]

\* Process p has run the loop of flushFileQueue to `head`; hs are the handler
\* invocations once the step's bookkeeping is done.  A call that returns resumes its caller in the
\* same turn of the event loop: the handler calls the callback at once.
\* build() is alone until it returns, and its resumption is a step of its own.
Resume(p, hs, head) ==
    /\ allFileUrlsToProcess' = head.queue
    /\ skipped' = skipped \cup head.skipped
    /\ IF p # 0 /\ head.frame.st = "ret"
       THEN /\ flush' = [flush EXCEPT ![p] = NoFlush]
            /\ handler' = [hs EXCEPT ![p] = CallCallback(hs[p])]
       ELSE /\ flush' = [flush EXCEPT ![p] = head.frame]
            /\ handler' = hs

Pass1Options == [isResolve |-> FALSE, importMap |-> Undefined]

\* faulty variant: the call is not awaited
FlushAwaitedMutNoAwait == flush[0].st # "none"

\* `await flushFileQueue(...)` in build(): build() goes on once the call
\* has returned
FlushAwaited == flush[0].st = "ret"

\* faulty variant: the import map is not passed
Pass2OptionsMutNoMap == [isResolve |-> TRUE, importMap |-> Undefined]

\* {isSSR, isHMR, isResolve: true, importMap: optimizedImportMap}
Pass2Options == [isResolve |-> TRUE, importMap |-> optimizedImportMap']

\* await flushFileQueue(false, {isSSR, isHMR, isResolve: false})
StartPass1 ==
    /\ pc = "start"
    /\ pc' = "pass1"
    /\ Resume(0, handler, LoopHead(allFileUrlsToProcess, FALSE, Pass1Options))
    /\ UNCHANGED <<config, thrown, folderVars, rewriteVars, allFileUrlsUnique, allBareModuleSpecifiers,
                   optimizedImportMap, onFileChangeCallback, pass1Imports,
                   loads, writes, written, installArgs, installResults,
                   mapAssigns>>
    /\ phases' = Append(phases, "Pass1-Discover")
    /\ UNCHANGED steps

\* faulty variant: the rejection is swallowed inside flushFileQueue
RejectMutSwallow(p) ==
    /\ flush' = [flush EXCEPT ![p] = [@ EXCEPT !.st = "err"]]
    /\ UNCHANGED <<pc, handler>>

\* what a failed await does to process p: the rejection leaves
\* flushFileQueue and then build() or the handler
Reject(p) ==
    /\ flush' = [flush EXCEPT ![p] = [@ EXCEPT !.st = "err"]]
    /\ IF p = 0
       THEN pc' = "failed" /\ UNCHANGED handler
       ELSE handler' = [handler EXCEPT ![p] = [@ EXCEPT !.pc = "failed"]] /\ UNCHANGED pc

\* const result = await devServer.loadUrl(fileUrl, loadOptions) resolves and
\* mkdirp is called.  Nothing reads result.imports before the for loop that
\* follows the write, so the list is drawn there (WriteReturn).
LoadReturn(p) ==
    /\ flush[p].st = "load"
    /\ flush' = [flush EXCEPT ![p] = [@ EXCEPT !.st = "mkdirp"]]
    /\ loads' = IF p = 0 THEN [loads EXCEPT ![flush[p].url] = @ + 1] ELSE loads
    /\ UNCHANGED <<config, thrown, folderVars, rewriteVars, allFileUrlsUnique, allFileUrlsToProcess,
                   allBareModuleSpecifiers, optimizedImportMap,
                   onFileChangeCallback, pc, handler, pass1Imports, writes,
                   written, skipped, installArgs, installResults, mapAssigns>>
    /\ UNCHANGED <<phases, steps>>

\* devServer.loadUrl rejects
LoadFail(p) ==
    /\ flush[p].st = "load"
    /\ Reject(p)
    /\ UNCHANGED <<config, thrown, folderVars, rewriteVars, allFileUrlsUnique, allFileUrlsToProcess,
                   allBareModuleSpecifiers, optimizedImportMap,
                   onFileChangeCallback, pass1Imports, loads, writes, written,
                   skipped, installArgs, installResults, mapAssigns>>
    /\ UNCHANGED <<phases, steps>>

\* await mkdirp(path.dirname(...)) resolves; fs.writeFile is called
MkdirpReturn(p) ==
    /\ flush[p].st = "mkdirp"
    /\ flush' = [flush EXCEPT ![p] = [@ EXCEPT !.st = "write"]]
    /\ UNCHANGED <<config, thrown, folderVars, rewriteVars, allFileUrlsUnique, allFileUrlsToProcess,
                   allBareModuleSpecifiers, optimizedImportMap,
                   onFileChangeCallback, pc, handler, pass1Imports, loads,
                   writes, written, skipped, installArgs, installResults,
                   mapAssigns>>
    /\ UNCHANGED <<phases, steps>>

\* mkdirp or fs.writeFile rejects
WriteFail(p) ==
    /\ flush[p].st \in {"mkdirp", "write"}
    /\ Reject(p)
    /\ UNCHANGED <<config, thrown, folderVars, rewriteVars, allFileUrlsUnique, allFileUrlsToProcess,
                   allBareModuleSpecifiers, optimizedImportMap,
                   onFileChangeCallback, pass1Imports, loads, writes, written,
                   skipped, installArgs, installResults, mapAssigns>>
    /\ UNCHANGED <<phases, steps>>

\* await fs.writeFile(...) resolves: the file is in the output tree, the
\* imports of the load result are sorted into the Sets and the queue, and
\* the loop goes round
WriteReturn(p) ==
    /\ flush[p].st = "write"
    /\ \E imports \in ImportLists :
        LET s == AddImports(imports, Sets) IN
        /\ allFileUrlsUnique' = s.unique
        /\ allBareModuleSpecifiers' = s.bare
        /\ Resume(p, Freshen(handler, flush[p].url),
                  LoopHead(s.queue, flush[p].ignorePkg, flush[p]))
        /\ pass1Imports' =
             IF p = 0 /\ pc = "pass1"
             THEN [pass1Imports EXCEPT ![flush[p].url] = Range(imports)]
             ELSE pass1Imports
    /\ written' = written \cup {flush[p].url}
    /\ writes' = IF p = 0 THEN [writes EXCEPT ![flush[p].url] = @ + 1] ELSE writes
    /\ UNCHANGED <<config, thrown, folderVars, rewriteVars, optimizedImportMap, onFileChangeCallback, pc,
                   loads, installArgs, installResults, mapAssigns>>
    /\ UNCHANGED <<phases, steps>>

\* allFileUrlsToProcess = [...allFileUrlsUnique];
\* await flushFileQueue(!config.buildOptions.watch, {..., isResolve: true, importMap})
StartPass2 ==
    /\ pc' = "pass2"
    /\ Resume(0, handler, LoopHead(allFileUrlsUnique, ~watch, Pass2Options))
    /\ loads' = ZeroCount
    /\ writes' = ZeroCount
    /\ pass1Imports' = NoImports
    /\ phases' = Append(phases, "Pass2-Rewrite")
    /\ UNCHANGED steps

\* pass 1 has returned.  Not watching: installOptimizedDependencies is called
\* with [...allBareModuleSpecifiers].  Watching: pass 2 starts at once.
Pass1Return ==
    /\ pc = "pass1"
    /\ FlushAwaited
    /\ IF ~watch
       THEN /\ pc' = "install"
            /\ phases' = Append(phases, "Package-Optimize")
            /\ installArgs' = Append(installArgs, allBareModuleSpecifiers)
            /\ flush' = [flush EXCEPT ![0] = NoFlush]
            /\ UNCHANGED <<allFileUrlsToProcess, skipped, loads, writes,
                           optimizedImportMap, pass1Imports, handler, steps>>
       ELSE /\ optimizedImportMap' = optimizedImportMap
            /\ StartPass2
            /\ UNCHANGED installArgs
    /\ UNCHANGED <<config, thrown, folderVars, rewriteVars, allFileUrlsUnique, allBareModuleSpecifiers,
                   onFileChangeCallback, written, installResults, mapAssigns>>

\* installPackages resolves: optimizedImportMap = installResult.importMap,
\* then pass 2 starts
InstallReturn ==
    /\ pc = "install"
    /\ \E importMap \in ImportMaps :
        /\ optimizedImportMap' = importMap
        /\ installResults' = Append(installResults, importMap)
    /\ mapAssigns' = mapAssigns + 1
    /\ StartPass2
    /\ UNCHANGED <<config, thrown, folderVars, rewriteVars, allFileUrlsUnique, allBareModuleSpecifiers,
                   onFileChangeCallback, written, installArgs>>

\* installPackages rejects
InstallFail ==
    /\ pc = "install"
    /\ pc' = "failed"
    /\ UNCHANGED <<config, thrown, folderVars, rewriteVars, allFileUrlsUnique, allFileUrlsToProcess,
                   allBareModuleSpecifiers, optimizedImportMap,
                   onFileChangeCallback, flush, handler, pass1Imports, loads,
                   writes, written, skipped, installArgs, installResults,
                   mapAssigns>>
    /\ UNCHANGED <<phases, steps>>

\* pass 2 has returned.  Watching: the handler is registered with
\* devServer.onFileChange and build() returns.  Not watching: the first
\* post-build step is called; `optimize` is
\* config.optimize || config.plugins.some((p) => p.optimize).
Pass2Return ==
    /\ pc = "pass2"
    /\ FlushAwaited
    /\ flush' = [flush EXCEPT ![0] = NoFlush]
    /\ \E optimize \in BOOLEAN :
        pc' = IF watch THEN "watching"
              ELSE IF optimize THEN "runBuiltInOptimize"
              ELSE "removeEmptyFolders"
    /\ phases' = Append(phases, IF watch THEN "Watch-Loop" ELSE "Post-Build")
    /\ steps' = IF watch THEN steps ELSE <<pc'>>
    /\ UNCHANGED <<config, thrown, folderVars, rewriteVars, allFileUrlsUnique, allFileUrlsToProcess,
                   allBareModuleSpecifiers, optimizedImportMap,
                   onFileChangeCallback, handler, pass1Imports, loads, writes,
                   written, skipped, installArgs, installResults, mapAssigns>>

\* faulty variant: the cleanup step is called before the empty directories
\* are removed
PostBuildStepsMutSwap ==
    <<"runBuiltInOptimize", "runPipelineOptimizeStep", "runPipelineCleanupStep",
      "removeEmptyFolders", "shutdown", "done">>

\* the calls build() awaits after pass 2 of a non-watch build, in program
\* order, and its return
PostBuildSteps ==
    <<"runBuiltInOptimize", "runPipelineOptimizeStep", "removeEmptyFolders",
      "runPipelineCleanupStep", "shutdown", "done">>

StepIndex(step) == CHOOSE i \in 1..Len(PostBuildSteps) : PostBuildSteps[i] = step

\* the awaited post-build step resolves and the next one is called; after
\* devServer.shutdown() build() returns
PostBuildReturn ==
    /\ pc \in Range(PostBuildSteps) \ {"done"}
    /\ pc' = PostBuildSteps[StepIndex(pc) + 1]
    /\ steps' = IF pc' = "done" THEN steps ELSE Append(steps, pc')
    /\ UNCHANGED <<config, thrown, folderVars, rewriteVars, allFileUrlsUnique, allFileUrlsToProcess,
                   allBareModuleSpecifiers, optimizedImportMap,
                   onFileChangeCallback, flush, handler, pass1Imports, loads,
                   writes, written, skipped, installArgs, installResults,
                   mapAssigns>>
    /\ UNCHANGED phases

\* the awaited post-build step rejects
PostBuildFail ==
    /\ pc \in Range(PostBuildSteps) \ {"done"}
    /\ pc' = "failed"
    /\ UNCHANGED <<config, thrown, folderVars, rewriteVars, allFileUrlsUnique, allFileUrlsToProcess,
                   allBareModuleSpecifiers, optimizedImportMap,
                   onFileChangeCallback, flush, handler, pass1Imports, loads,
                   writes, written, skipped, installArgs, installResults,
                   mapAssigns>>
    /\ UNCHANGED <<phases, steps>>

\* ------------------------------------------------------------ watch mode

\* the first argument of the handler's flushFileQueue(true, ...)
RecrawlIgnorePkg == TRUE

\* allFileUrlsToProcess.push(...getUrlsForFile(filePath, config)!)
HandlerPush(queue, fileUrls) == queue \o fileUrls

\* the watcher reports filePath: the handler pushes its URLs and calls
\* flushFileQueue(true, {..., isResolve: true, importMap: optimizedImportMap})
FileChange(i, filePath) ==
    /\ pc = "watching"
    /\ handler[i].pc = "wait"
    /\ i > 1 => handler[i - 1].pc # "wait"
    /\ optimizedImportMap' = optimizedImportMap
    /\ Resume(i, [handler EXCEPT ![i] =
                      [pc |-> "flush", filePath |-> filePath, flushes |-> 1,
                       calls |-> <<>>, stale |-> Range(getUrlsForFile(filePath))]],
              LoopHead(HandlerPush(allFileUrlsToProcess, getUrlsForFile(filePath)),
                       RecrawlIgnorePkg, Pass2Options))
    /\ UNCHANGED <<config, thrown, folderVars, rewriteVars, allFileUrlsUnique, allBareModuleSpecifiers,
                   onFileChangeCallback, pc, pass1Imports, loads, writes,
                   written, installArgs, installResults, mapAssigns>>
    /\ UNCHANGED <<phases, steps>>

\* await onFileChangeCallback({filePath}) resolves: the handler invocation
\* is over
CallbackReturn(i) ==
    /\ handler[i].pc = "callback"
    /\ handler' = [handler EXCEPT ![i] = [@ EXCEPT !.pc = "done"]]
    /\ UNCHANGED <<config, thrown, folderVars, rewriteVars, allFileUrlsUnique, allFileUrlsToProcess,
                   allBareModuleSpecifiers, optimizedImportMap,
                   onFileChangeCallback, pc, flush, pass1Imports, loads, writes,
                   written, skipped, installArgs, installResults, mapAssigns>>
    /\ UNCHANGED <<phases, steps>>

\* result.onFileChange(callback): onFileChangeCallback = callback
RegisterCallback(callback) ==
    /\ pc = "watching"
    /\ onFileChangeCallback # callback
    /\ onFileChangeCallback' = callback
    /\ UNCHANGED <<config, thrown, folderVars, rewriteVars, allFileUrlsUnique, allFileUrlsToProcess,
                   allBareModuleSpecifiers, optimizedImportMap, pc, flush,
                   handler, pass1Imports, loads, writes, written, skipped,
                   installArgs, installResults, mapAssigns>>
    /\ UNCHANGED <<phases, steps>>

\* ---------------------------------------------------- removeEmptyFolders

\* build() is not called
NoBuildCall ==
    /\ watch = FALSE
    /\ allFileUrlsUnique = <<>>
    /\ allFileUrlsToProcess = <<>>
    /\ allBareModuleSpecifiers = <<>>
    /\ optimizedImportMap = Undefined
    /\ onFileChangeCallback = NoopCallback
    /\ pc = "none"
    /\ flush = [p \in Procs |-> NoFlush]
    /\ handler = [i \in Handlers |-> NoHandler]
    /\ seeds = {}
    /\ pass1Imports = NoImports
    /\ loads = ZeroCount
    /\ writes = ZeroCount
    /\ written = {}
    /\ skipped = {}
    /\ installArgs = <<>>
    /\ installResults = <<>>
    /\ mapAssigns = 0
    /\ phases = <<>>
    /\ steps = <<>>
    /\ thrown = {}

\* the most entries (files and directories) a tree has below its root
MaxEntries == 4

\* the names an entry may have in its directory
Names == {"x", "y"}

\* a path is the sequence of names from the directory removeEmptyFolders is
\* called with, which is the empty path
Root == <<>>

\* the trees that have path as one more entry of an existing directory
WithEntry(tree, path) ==
    IF path \in tree.dirs \cup tree.files
    THEN {}
    ELSE {[tree EXCEPT !.dirs = @ \cup {path}],
          [tree EXCEPT !.files = @ \cup {path}]}

RECURSIVE TreesUpTo(_)
\* the trees with at most n entries below the root
TreesUpTo(n) ==
    IF n = 0
    THEN {[dirs |-> {Root}, files |-> {}]}
    ELSE LET smaller == TreesUpTo(n - 1) IN
         smaller \cup
         UNION {UNION {WithEntry(tree, Append(dir, name)) :
                          dir \in tree.dirs, name \in Names} :
                   tree \in smaller}

Trees == TreesUpTo(MaxEntries)

\* (await fs.stat(loc)).isDirectory()
isDirectory(tree, loc) == loc \in tree.dirs

\* await fs.readdir(directoryLoc): the entries of the directory
readdir(tree, directoryLoc) ==
    {path \in tree.dirs \cup tree.files :
        Len(path) = Len(directoryLoc) + 1 /\ Front(path) = directoryLoc}

\* await fs.rmdir(directoryLoc)
rmdir(tree, directoryLoc) == [tree EXCEPT !.dirs = @ \ {directoryLoc}]

RECURSIVE removeEmptyFolders(_, _)
RECURSIVE CleanEach(_, _)

\* await Promise.all(files.map((file) => removeEmptyFolders(path.join(...)))):
\* the calls work on disjoint subtrees, so the order they run in is immaterial
CleanEach(tree, files) ==
    IF files = {}
    THEN tree
    ELSE LET file == CHOOSE f \in files : TRUE IN
         CleanEach(removeEmptyFolders(tree, file).tree, files \ {file})

\* removeEmptyFolders(directoryLoc): the tree it leaves and what it returns
removeEmptyFolders(tree, directoryLoc) ==
    IF ~isDirectory(tree, directoryLoc)
    THEN [tree |-> tree, ret |-> "false"]
    ELSE IF readdir(tree, directoryLoc) = {}
    THEN [tree |-> rmdir(tree, directoryLoc), ret |-> "false"]
    ELSE LET after == CleanEach(tree, readdir(tree, directoryLoc)) IN
         [tree |-> IF readdir(after, directoryLoc) = {}
                   THEN rmdir(after, directoryLoc)
                   ELSE after,
          ret |-> "true"]

\* any tree is on disk and removeEmptyFolders has not been called
FolderInit ==
    /\ disk \in Trees
    /\ diskBefore = disk
    /\ rmReturn = "none"
    /\ NoBuildCall
    /\ NoRewriteCall

\* await removeEmptyFolders(buildDirectoryLoc)
RemoveEmptyFoldersCall ==
    /\ rmReturn = "none"
    /\ LET r == removeEmptyFolders(disk, Root) IN
        /\ disk' = r.tree
        /\ rmReturn' = r.ret
    /\ UNCHANGED <<diskBefore, buildVars, rewriteVars>>

FolderNext == RemoveEmptyFoldersCall

FolderSpec == FolderInit /\ [][FolderNext]_vars

\* ------------------------------------------------------- rewrite-imports

\* Text is a sequence of lexemes: a quote, a keyword, a tag, a comment or a
\* piece of a specifier is one element, and offsets count elements.
SQ == "'"
DQ == "\""
BQ == "backtick"
MagicComment == "/*c*/"
Interpolation == "${x}"
ProxySuffix == ".proxy.js"

\* the most statements, rules or blocks in a file
MaxItems == 2

Min(S) == CHOOSE x \in S : \A y \in S : x <= y

RECURSIVE Flatten(_)
Flatten(seqs) == IF seqs = <<>> THEN <<>> ELSE Head(seqs) \o Flatten(Tail(seqs))

\* source.slice(start, end), source.substring(start, end); offsets from 0
Slice(source, start, end) == SubSeq(source, start + 1, end)

\* the least offset from `from` on at which one of the lexemes stands, or -1
IndexOfAny(code, lexemes, from) ==
    LET hits == {i \in from..(Len(code) - 1) : code[i + 1] \in lexemes} IN
    IF hits = {} THEN -1 ELSE Min(hits)

RECURSIVE TrimStart(_)
TrimStart(s) == IF s # <<>> /\ Head(s) = " " THEN TrimStart(Tail(s)) ELSE s

RECURSIVE TrimEnd(_)
TrimEnd(s) == IF s # <<>> /\ Last(s) = " " THEN TrimEnd(Front(s)) ELSE s

\* s.trim()
Trim(s) == TrimEnd(TrimStart(s))

\* source.slice(0, start) + (withSlice || '') + source.slice(end)
spliceString(source, withSlice, start, end) ==
    Slice(source, 0, start) \o withSlice \o Slice(source, end, Len(source))

\* the replace functions a caller may pass
ReplaceFunctions == {"identity", "shorter", "proxy"}

\* replaceImport(spec)
Replace(replace, spec) ==
    CASE replace = "identity" -> spec
      [] replace = "shorter" -> <<"s">>
      [] replace = "proxy" -> <<"/p/">> \o spec \o <<ProxySuffix>>

RECURSIVE parse(_, _)
\* the import records of es-module-lexer for the code from offset i on, in
\* source order: s and e bound the specifier of a static import (inside its
\* quotes) and the whole argument of a dynamic import; d is -1 for a static
\* import, -2 for import.meta and the offset of the import( otherwise
parse(code, i) ==
    IF i >= Len(code) THEN <<>>
    ELSE IF code[i + 1] = "import.meta.url"
    THEN <<[s |-> i, e |-> i + 1, d |-> -2]>> \o parse(code, i + 1)
    ELSE IF code[i + 1] = "import("
    THEN LET close == IndexOfAny(code, {")"}, i + 1) IN
         IF close = -1 THEN <<>>
         ELSE <<[s |-> i + 1, e |-> close, d |-> i]>> \o parse(code, close + 1)
    ELSE IF code[i + 1] = "import" /\ i + 1 < Len(code) /\ code[i + 2] \in {SQ, DQ}
    THEN LET close == IndexOfAny(code, {code[i + 2]}, i + 2) IN
         IF close = -1 THEN <<>>
         ELSE <<[s |-> i + 2, e |-> close, d |-> -1]>> \o parse(code, close + 1)
    ELSE parse(code, i + 1)

IsComment(lexeme) == lexeme = MagicComment

\* matchDynamicImportValue(importStatement): the value of the argument when,
\* comments and outer white space apart, it is one quoted string or a
\* template literal without interpolation; <<>> stands for null
matchDynamicImportValue(importStatement) ==
    LET arg == Trim(SelectSeq(importStatement, LAMBDA l : ~IsComment(l)))
        value == Slice(arg, 1, Len(arg) - 1)
    IN  IF /\ Len(arg) >= 3
           /\ arg[1] \in {SQ, DQ, BQ}
           /\ arg[Len(arg)] = arg[1]
           /\ \A k \in 1..Len(value) : value[k] \notin {arg[1], Interpolation}
        THEN value
        ELSE <<>>

\* imp.d === -2 is dropped; a dynamic import is kept when
\* matchDynamicImportValue gives a value
KeepImport(code, imp) ==
    IF imp.d = -2 THEN FALSE
    ELSE IF imp.d > -1
    THEN matchDynamicImportValue(Slice(code, imp.s, imp.e)) # <<>>
    ELSE TRUE

\* scanCodeImportsExports(code)
scanCodeImportsExports(code) ==
    SelectSeq(parse(code, 0), LAMBDA imp : KeepImport(code, imp))

\* spec.match(WEBPACK_MAGIC_COMMENT_REGEX): the comments of spec in order;
\* <<>> stands for null
MatchMagicComments(spec) == SelectSeq(spec, IsComment)

RECURSIVE Join(_, _)
\* list.join(separator)
Join(list, separator) ==
    IF Len(list) <= 1 THEN list
    ELSE <<Head(list), separator>> \o Join(Tail(list), separator)

RECURSIVE JSONEscape(_)
JSONEscape(value) ==
    IF value = <<>> THEN <<>>
    ELSE (IF Head(value) \in {DQ, "\\"} THEN <<"\\", Head(value)>> ELSE <<Head(value)>>)
         \o JSONEscape(Tail(value))

\* faulty variant: the literal keeps single quotes
JSONStringifyMutSingle(value) == <<SQ>> \o JSONEscape(value) \o <<SQ>>

\* JSON.stringify(value) of a string
JSONStringify(value) == <<DQ>> \o JSONEscape(value) \o <<DQ>>

\* the text spliced in for import record imp, given what replaceImport gave
RewrittenImport(imp, comments, replaced) ==
    IF imp.d > -1
    THEN IF comments # <<>>
         THEN Join(comments, " ") \o <<" ">> \o JSONStringify(replaced)
         ELSE JSONStringify(replaced)
    ELSE replaced

RECURSIVE EsmLoop(_, _, _, _, _)
\* for (const imp of imports.reverse()) { ... }: the imports k, k-1, .., 1
\* are still to be rewritten; calls are the arguments replaceImport has had
EsmLoop(rewrittenCode, imports, k, calls, replace) ==
    IF k = 0
    THEN [code |-> rewrittenCode, calls |-> calls]
    ELSE LET imp == imports[k]
             raw == Slice(rewrittenCode, imp.s, imp.e)
             comments == IF imp.d > -1 THEN MatchMagicComments(raw) ELSE <<>>
             spec == IF imp.d > -1 THEN matchDynamicImportValue(raw) ELSE raw
         IN  EsmLoop(spliceString(rewrittenCode,
                                  RewrittenImport(imp, comments, Replace(replace, spec)),
                                  imp.s, imp.e),
                     imports, k - 1, Append(calls, spec), replace)

\* transformEsmImports(_code, replaceImport)
transformEsmImports(code, replace) ==
    LET imports == scanCodeImportsExports(code) IN
    EsmLoop(code, imports, Len(imports), <<>>, replace)

NoMatch == [index |-> -1, length |-> 0, spec |-> <<>>]

\* CSS_REGEX tried at offset i: @import, white space, a quote, the shortest
\* text up to a quote that a semicolon follows
CssMatchAt(code, i) ==
    IF code[i + 1] # "@import" THEN NoMatch
    ELSE LET rest == TrimStart(Slice(code, i + 1, Len(code)))
             open == Len(code) - Len(rest)
             closes == {c \in (open + 1)..(Len(code) - 2) :
                           code[c + 1] \in {SQ, DQ} /\ code[c + 2] = ";"}
         IN  IF rest = <<>> \/ Head(rest) \notin {SQ, DQ} \/ closes = {}
             THEN NoMatch
             ELSE [index |-> i, length |-> Min(closes) + 2 - i,
                   spec |-> Slice(code, open + 1, Min(closes))]

\* importRegex.exec(rewrittenCode) of a global regex whose lastIndex is given
CssExec(code, lastIndex) ==
    LET hits == {i \in lastIndex..(Len(code) - 1) : CssMatchAt(code, i) # NoMatch} IN
    IF hits = {} THEN NoMatch ELSE CssMatchAt(code, Min(hits))

\* faulty variant: every occurrence of the suffix is removed
StripProxyMutAll(spec) == SelectSeq(spec, LAMBDA l : l # ProxySuffix)

\* spec.replace('.proxy.js', ''): the first occurrence is removed
StripProxy(spec) ==
    LET at == IndexOfAny(spec, {ProxySuffix}, 0) IN
    IF at = -1 THEN spec ELSE spliceString(spec, <<>>, at, at + 1)

\* `@import "${...}";`
ImportRule(spec) == <<"@import", " ", DQ>> \o spec \o <<DQ, ";">>

RECURSIVE CssLoop(_, _, _, _)
\* while ((match = importRegex.exec(rewrittenCode))) { ... }
CssLoop(rewrittenCode, lastIndex, calls, replace) ==
    LET match == CssExec(rewrittenCode, lastIndex) IN
    IF match = NoMatch
    THEN [code |-> rewrittenCode, calls |-> calls]
    ELSE CssLoop(spliceString(rewrittenCode,
                              ImportRule(StripProxy(Replace(replace, match.spec))),
                              match.index, match.index + match.length),
                 match.index + match.length, Append(calls, match.spec), replace)

\* transformCssImports(code, replaceImport)
transformCssImports(code, replace) == CssLoop(code, 0, <<>>, replace)

OpenTag(kind) == IF kind = "script" THEN "<script>" ELSE "<style>"
CloseTag(kind) == IF kind = "script" THEN "</script>" ELSE "</style>"

\* HTML_JS_REGEX or HTML_STYLE_REGEX, as a global regex whose lastIndex is
\* given: the first opening tag that a closing tag follows, with the
\* shortest body; spec holds the body
BlockExec(code, lastIndex, kind) ==
    LET hits == {i \in lastIndex..(Len(code) - 1) :
                    /\ code[i + 1] = OpenTag(kind)
                    /\ IndexOfAny(code, {CloseTag(kind)}, i + 1) # -1}
    IN  IF hits = {} THEN NoMatch
        ELSE LET close == IndexOfAny(code, {CloseTag(kind)}, Min(hits) + 1) IN
             [index |-> Min(hits), length |-> close + 1 - Min(hits),
              spec |-> Slice(code, Min(hits) + 1, close)]

\* await transformEsmImports(scriptCode, ...) or transformCssImports(styleCode, ...)
TransformBlock(kind, blockCode, replace) ==
    IF kind = "script"
    THEN transformEsmImports(blockCode, replace)
    ELSE transformCssImports(blockCode, replace)

RECURSIVE HtmlLoop(_, _, _, _, _)
\* while ((match = jsImportRegex.exec(rewrittenCode))) { ... } and the same
\* loop for cssImportRegex; the tag is one lexeme long
HtmlLoop(rewrittenCode, lastIndex, calls, replace, kind) ==
    LET match == BlockExec(rewrittenCode, lastIndex, kind)
        blockCode == match.spec
        block == TransformBlock(kind, blockCode, replace)
    IN  IF match = NoMatch
        THEN [code |-> rewrittenCode, calls |-> calls]
        ELSE IF Trim(blockCode) # <<>>
        THEN HtmlLoop(spliceString(rewrittenCode, block.code, match.index + 1,
                                   match.index + 1 + Len(blockCode)),
                      match.index + match.length, calls \o block.calls,
                      replace, kind)
        ELSE HtmlLoop(rewrittenCode, match.index + match.length, calls,
                      replace, kind)

\* transformHtmlImports(code, replaceImport)
transformHtmlImports(code, replace) ==
    LET scripts == HtmlLoop(code, 0, <<>>, replace, "script") IN
    HtmlLoop(scripts.code, 0, scripts.calls, replace, "style")

Returned(r) == [st |-> "returned", code |-> r.code, calls |-> r.calls]

\* transformFileImports({baseExt, contents}, replaceImport)
transformFileImports(file, replace) ==
    IF file.baseExt = ".js"
    THEN Returned(transformEsmImports(file.contents, replace))
    ELSE IF file.baseExt = ".html"
    THEN Returned(transformHtmlImports(file.contents, replace))
    ELSE IF file.baseExt = ".css"
    THEN Returned(transformCssImports(file.contents, replace))
    ELSE [st |-> "threw", code |-> <<>>, calls |-> <<>>]

\* the specifiers of the files
SpecTexts == {<<"a">>, <<"b", ProxySuffix>>}

\* the arguments of the dynamic imports of the files: quoted strings,
\* template literals, magic comments before a string, and expressions that
\* are no literal
DynamicArgs ==
    {<<q>> \o spec \o <<q>> : q \in {SQ, DQ, BQ}, spec \in SpecTexts}
    \cup {<<MagicComment, " ", DQ, "a", DQ>>, <<MagicComment, MagicComment, SQ, "a", SQ>>,
          <<"x">>, <<BQ, Interpolation, BQ>>}

JsStatements ==
    {<<"import", SQ>> \o spec \o <<SQ, ";">> : spec \in SpecTexts}
    \cup {<<"import(">> \o arg \o <<")", ";">> : arg \in DynamicArgs}
    \cup {<<"import.meta.url", ";">>}

CssItems ==
    {<<"@import">> \o space \o <<q>> \o spec \o <<q, ";">> :
        space \in {<<>>, <<" ">>}, q \in {SQ, DQ}, spec \in SpecTexts}
    \cup {<<"p{}">>}

HtmlItems ==
    {<<"<script>">> \o body \o <<"</script>">> :
        body \in JsStatements \cup {<<>>, <<" ">>}}
    \cup {<<"<style>">> \o body \o <<"</style>">> :
             body \in (CssItems \ {<<"p{}">>}) \cup {<<" ">>}}
    \cup {<<"<p>">>}

FilesOf(baseExt, items) ==
    {[baseExt |-> baseExt, contents |-> Flatten(list)] :
        list \in SeqsUpTo(items, MaxItems)}

SourceFiles ==
    FilesOf(".js", JsStatements) \cup FilesOf(".css", CssItems)
    \cup FilesOf(".html", HtmlItems)
    \cup {[baseExt |-> ".svg", contents |-> <<"<p>">>]}

RewriteInit ==
    /\ sourceFile \in SourceFiles
    /\ replaceImport \in ReplaceFunctions
    /\ transformed = NotTransformed
    /\ NoBuildCall
    /\ NoFolderCall

\* await transformFileImports(sourceFile, replaceImport)
TransformFileImportsCall ==
    /\ transformed.st = "none"
    /\ transformed' = transformFileImports(sourceFile, replaceImport)
    /\ UNCHANGED <<sourceFile, replaceImport, buildVars, folderVars>>

RewriteNext == TransformFileImportsCall

RewriteSpec == RewriteInit /\ [][RewriteNext]_vars

\* the methods of the object build() returns
ResultMethods == {"onFileChange", "shutdown"}

\* faulty variant: the method of a non-watch result registers a callback
\* and does not throw
ResultMethodThrowsMutSilent(method) ==
    /\ pc = "done"
    /\ method \notin thrown
    /\ onFileChangeCallback' = "cb1"
    /\ UNCHANGED <<config, thrown, folderVars, rewriteVars, allFileUrlsUnique,
                   allFileUrlsToProcess, allBareModuleSpecifiers,
                   optimizedImportMap, pc, flush, handler, pass1Imports, loads,
                   writes, written, skipped, installArgs, installResults,
                   mapAssigns, phases, steps>>

\* result.onFileChange(...) or result.shutdown() of a build that did not
\* watch: throw new Error('build().onFileChange() only supported in "watch" mode.')
ResultMethodThrows(method) ==
    /\ pc = "done"
    /\ method \notin thrown
    /\ thrown' = thrown \cup {method}
    /\ UNCHANGED <<config, folderVars, rewriteVars, allFileUrlsUnique,
                   allFileUrlsToProcess, allBareModuleSpecifiers,
                   optimizedImportMap, onFileChangeCallback, pc, flush, handler,
                   pass1Imports, loads, writes, written, skipped, installArgs,
                   installResults, mapAssigns, phases, steps>>

\* ------------------------------------------------------- specification

\* the steps of the flushFileQueue call of process p
FlushStep(p) ==
    \/ LoadReturn(p)
    \/ LoadFail(p)
    \/ MkdirpReturn(p)
    \/ WriteFail(p)
    \/ WriteReturn(p)

\* the steps of build() outside flushFileQueue
BuildStep ==
    \/ StartPass1
    \/ Pass1Return
    \/ InstallReturn
    \/ InstallFail
    \/ Pass2Return
    \/ PostBuildReturn
    \/ PostBuildFail

\* what the watcher and the caller of build() do
Environment ==
    \/ \E i \in Handlers, filePath \in FilePaths : FileChange(i, filePath)
    \/ \E callback \in Callbacks : RegisterCallback(callback)
    \/ \E method \in ResultMethods : ResultMethodThrows(method)

\* build() alone: no file-change notification arrives
BuildNext ==
    \/ BuildStep
    \/ FlushStep(0)

Next ==
    \/ BuildStep
    \/ \E p \in Procs : FlushStep(p)
    \/ \E i \in Handlers : CallbackReturn(i)
    \/ Environment

\* the crawls of build() and of the handlers, the callback slot left as it is
CrawlNext ==
    \/ BuildStep
    \/ \E p \in Procs : FlushStep(p)
    \/ \E i \in Handlers : CallbackReturn(i)
    \/ \E i \in Handlers, filePath \in FilePaths : FileChange(i, filePath)

BuildSpec == Init /\ [][BuildNext]_vars

Spec == Init /\ [][Next]_vars

\* every awaited call settles and every continuation is run
FairSpec ==
    /\ Init /\ [][CrawlNext]_vars
    /\ WF_vars(BuildStep)
    /\ \A p \in Procs : WF_vars(FlushStep(p))
    /\ \A i \in Handlers : WF_vars(CallbackReturn(i))

\* ----------------------------------------------------------------- claims

DiscoveredSet == Range(allFileUrlsUnique)
WorkQueue == allFileUrlsToProcess
BareSpecifierSet == Range(allBareModuleSpecifiers)

\* a crawl pass of build() has just returned; its counts are still in place
Pass1Ended == pc = "pass1" /\ flush[0].st = "ret"
Pass2Ended == pc = "pass2" /\ flush[0].st = "ret"

HasSlashPrefix(s) == Len(s) >= 1 /\ s[1] = "/"
UnderPkgPrefix(s) ==
    Len(s) >= Len(pkgUrlPrefix) /\ SubSeq(s, 1, Len(pkgUrlPrefix)) = pkgUrlPrefix

\* C1 as stated: when pass 1 or pass 2 of build() ends, every URL in
\* DiscoveredSet was loaded exactly once and written exactly once in that pass.
C1_EveryUrlOncePerPass ==
    (Pass1Ended \/ Pass2Ended) =>
        \A u \in DiscoveredSet : loads[u] = 1 /\ writes[u] = 1

\* C1 amended: when a pass of build() ends, every URL in DiscoveredSet was
\* loaded and written exactly once in that pass, except that pass 2 of a
\* non-watch build (ignorePkg = true) loads and writes a URL under the package
\* prefix zero times.
C1_OncePerPassUnlessSkipped ==
    (Pass1Ended \/ Pass2Ended) =>
        \A u \in DiscoveredSet :
            LET n == IF pc = "pass2" /\ ~watch /\ UnderPkgPrefix(u) THEN 0 ELSE 1
            IN  loads[u] = n /\ writes[u] = n

\* pass 2 of a non-watch build has ended with a package URL and an imported
\* local URL discovered
C1_Witness ==
    /\ Pass2Ended
    /\ ~watch
    /\ UrlPkgX \in DiscoveredSet
    /\ \E u \in DiscoveredSet \ seeds : ~UnderPkgPrefix(u) /\ loads[u] = 1

LocalImportsOf(S) == {s \in UNION {pass1Imports[u] : u \in S} : HasSlashPrefix(s)}

RECURSIVE ReachableFrom(_)
\* the URLs reachable from S along the '/'-prefixed specifiers loadUrl returned
ReachableFrom(S) ==
    LET T == S \cup LocalImportsOf(S) IN IF T = S THEN S ELSE ReachableFrom(T)

\* C2: when pass 1 ends, DiscoveredSet is the set of URLs reachable from the
\* seeds along the '/'-prefixed specifiers loadUrl returned, and
\* BareSpecifierSet is the set of the other specifiers returned for those URLs;
\* at all times BareSpecifierSet holds no '/'-prefixed specifier and
\* DiscoveredSet and WorkQueue hold only '/'-prefixed ones.
C2_Pass1ComputesClosure ==
    /\ Pass1Ended =>
        /\ DiscoveredSet = ReachableFrom(seeds)
        /\ BareSpecifierSet =
             {s \in UNION {pass1Imports[u] : u \in ReachableFrom(seeds)} :
                 ~HasSlashPrefix(s)}
    /\ \A s \in BareSpecifierSet : ~HasSlashPrefix(s)
    /\ \A u \in DiscoveredSet \cup Range(WorkQueue) : HasSlashPrefix(u)

\* pass 1 has ended on a graph with a cycle through an imported URL, a
\* self-import and a bare import
C2_Witness ==
    /\ Pass1Ended
    /\ seeds = {UrlA}
    /\ UrlB \in pass1Imports[UrlA]
    /\ UrlA \in pass1Imports[UrlB]
    /\ UrlB \in pass1Imports[UrlB]
    /\ BareL \in BareSpecifierSet

IsPrefix(a, b) == Len(a) <= Len(b) /\ SubSeq(b, 1, Len(a)) = a

\* the flushFileQueue call of process p returns in this step
FlushReturns(p) ==
    IF p = 0
    THEN flush[0].st # "ret" /\ flush'[0].st = "ret"
    ELSE handler[p].pc \in {"wait", "flush"} /\ handler'[p].pc = "callback"

\* the flushFileQueue call of process p rejects in this step
FlushRejects(p) == flush[p].st # "err" /\ flush'[p].st = "err"

\* C3 as stated: every call of flushFileQueue terminates, and WorkQueue is
\* empty when it does.
C3_TerminatesWithEmptyQueue ==
    /\ \A p \in Procs :
        [](flush[p].st \in InFlight => <>(flush[p].st \notin InFlight))
    /\ [][\A p \in Procs :
            (FlushReturns(p) \/ FlushRejects(p)) => WorkQueue' = <<>>]_vars

\* C3 amended: every call of flushFileQueue terminates, cycles and
\* self-imports included: it returns, and WorkQueue is then empty, or it
\* rejects because a loadUrl, mkdirp or writeFile call failed, and WorkQueue
\* may then hold URLs.
C3_TerminatesAndReturnsWithEmptyQueue ==
    /\ \A p \in Procs :
        [](flush[p].st \in InFlight => <>(flush[p].st \notin InFlight))
    /\ [][\A p \in Procs : FlushReturns(p) => WorkQueue' = <<>>]_vars

\* the recrawl of the first event has rejected, leaving a URL in the queue,
\* and the recrawl of the second has returned and drained it
C3_Witness ==
    /\ handler[1].pc = "failed"
    /\ handler[1].filePath = "fab"
    /\ handler[2].pc = "callback"
    /\ WorkQueue = <<>>

\* the URLs DiscoveredSet gains in this step, in insertion order
Discovered ==
    SubSeq(allFileUrlsUnique', Len(allFileUrlsUnique) + 1, Len(allFileUrlsUnique'))

\* a step inside a crawl: neither the reset of the queue before a pass nor
\* the arrival of a file-change notification
CrawlStep ==
    /\ pc' = pc
    /\ \A i \in Handlers : handler[i].pc = "wait" => handler'[i].pc = "wait"

\* C4: in every step of pass 1, pass 2 and every recrawl DiscoveredSet keeps
\* all its elements, and a crawl step pushes onto WorkQueue exactly the URLs
\* DiscoveredSet gains: an import that is already a member changes neither.
C4_DiscoveredSetOnlyGrows ==
    [][/\ IsPrefix(allFileUrlsUnique, allFileUrlsUnique')
       /\ DiscoveredSet \subseteq Range(allFileUrlsUnique')
       /\ CrawlStep => IsPrefix(WorkQueue', WorkQueue \o Discovered)]_vars

\* pass 1 has processed a file that imports itself and a seed
C4_Witness ==
    /\ pc = "pass1"
    /\ seeds = {UrlA, UrlB}
    /\ pass1Imports[UrlA] = {UrlA, UrlB}
    /\ DiscoveredSet = {UrlA, UrlB}

NonWatchPhases ==
    <<"Mount-Scan", "Pass1-Discover", "Package-Optimize", "Pass2-Rewrite",
      "Post-Build">>

\* C5: a non-watch build enters its phases in the order Mount-Scan,
\* Pass1-Discover, Package-Optimize, Pass2-Rewrite, Post-Build; while the
\* installer runs WorkQueue is empty and no crawl is active; no loadUrl call
\* with isResolve = true is in flight before the installer has returned; and
\* a post-build step runs only with pass 2 over and WorkQueue empty.
C5_PhaseOrder ==
    ~watch =>
        /\ IsPrefix(phases, NonWatchPhases)
        /\ pc = "install" =>
            /\ Len(phases) = 3
            /\ WorkQueue = <<>>
            /\ flush[0].st = "none"
            /\ Len(installArgs) = 1 /\ installResults = <<>>
        /\ installArgs # <<>> => Len(phases) >= 3
        /\ (flush[0].st \in InFlight /\ flush[0].isResolve) =>
            /\ Len(installResults) = 1
            /\ Len(phases) = 4
        /\ pc \in Range(PostBuildSteps) =>
            /\ Len(phases) = 5
            /\ WorkQueue = <<>>
            /\ flush[0].st = "none"

\* a non-watch build has reached the cleanup step after both passes
C5_Witness ==
    /\ ~watch
    /\ pc = "runPipelineCleanupStep"
    /\ phases = NonWatchPhases
    /\ Cardinality(DiscoveredSet) = 3

\* the flushFileQueue calls that have received load options
Called == {p \in Procs : flush[p].st # "none"}

\* C6: optimizedImportMap is assigned at most once and keeps its value; in a
\* non-watch build the installer is called at most once and every loadUrl
\* call with isResolve = true receives the import map it returned; in a watch
\* build the installer is never called and every loadUrl call of pass 2 and
\* of every recrawl receives an undefined import map.
C6_ImportMapAssignedOnce ==
    /\ mapAssigns <= 1
    /\ Len(installArgs) <= 1
    /\ Len(installResults) = mapAssigns
    /\ optimizedImportMap =
         IF installResults = <<>> THEN Undefined ELSE installResults[1]
    /\ watch => installArgs = <<>>
    /\ \A p \in Called :
        flush[p].isResolve =>
            /\ ~watch => installResults # <<>>
            /\ flush[p].importMap =
                 IF watch THEN Undefined ELSE installResults[Len(installResults)]

\* a loadUrl call of pass 2 of a non-watch build is in flight with the map
\* the installer returned
C6_Witness ==
    /\ ~watch
    /\ flush[0].st = "load"
    /\ flush[0].isResolve
    /\ flush[0].importMap = "m2"
    /\ installResults = <<"m2">>

\* pass 1 of build() is over
PastPass1 == Pass1Ended \/ pc \notin {"start", "pass1"}

\* build() has returned
BuildReturned == pc \in {"done", "watching"}

\* C7 as stated: nothing is added to BareSpecifierSet after pass 1 ends, and
\* a build that installs packages hands it to the installer exactly once, so
\* the installer's argument is the set at the end of the session.
C7_BareSetFixedAfterPass1 ==
    [][/\ PastPass1 => allBareModuleSpecifiers' = allBareModuleSpecifiers
       /\ (BuildReturned' /\ ~watch) =>
            /\ Len(installArgs') = 1
            /\ Range(installArgs'[1]) = Range(allBareModuleSpecifiers')]_vars

\* C7 amended: BareSpecifierSet never loses an element; a non-watch build
\* calls the installer exactly once, when pass 1 has ended, with exactly the
\* bare specifiers loadUrl returned in pass 1, and a watch build never calls
\* it; pass 2 and the watch recrawls still add the bare specifiers loadUrl
\* returns to them, and no installer call receives those.
C7_InstallerGetsPass1BareSet ==
    /\ [][IsPrefix(allBareModuleSpecifiers, allBareModuleSpecifiers')]_vars
    /\ [](/\ Len(installArgs) = IF ~watch /\ Len(phases) >= 3 THEN 1 ELSE 0
          /\ installArgs # <<>> => IsPrefix(installArgs[1], allBareModuleSpecifiers)
          /\ pc = "install" =>
                /\ installArgs[1] = allBareModuleSpecifiers
                /\ Range(installArgs[1]) =
                     {s \in UNION {pass1Imports[u] : u \in AllUrls} :
                         ~HasSlashPrefix(s)})

\* a non-watch build has returned with a bare specifier, found in pass 2,
\* that the installer was not given
C7_Witness ==
    /\ pc = "done"
    /\ installArgs = << <<>> >>
    /\ BareSpecifierSet = {BareL}

\* C8: a flushFileQueue call of build() has ignorePkg false in pass 1 and, in
\* pass 2, true exactly when the build does not watch; every recrawl has it
\* true; a call with ignorePkg set never loads or writes a URL under the
\* package prefix, and only such URLs, under such calls, are skipped.
C8_IgnorePkg ==
    /\ pc = "pass1" => ~flush[0].ignorePkg
    /\ pc = "pass2" => flush[0].ignorePkg = ~watch
    /\ \A i \in Handlers : flush[i].st # "none" => flush[i].ignorePkg
    /\ \A p \in Procs :
        (flush[p].st \in InFlight /\ flush[p].ignorePkg) =>
            ~UnderPkgPrefix(flush[p].url)
    /\ (pc = "pass2" /\ ~watch) =>
        \A u \in AllUrls : UnderPkgPrefix(u) => loads[u] = 0 /\ writes[u] = 0
    /\ \A u \in skipped : UnderPkgPrefix(u)
    /\ skipped # {} =>
        \/ ~watch /\ Len(phases) >= 4
        \/ watch /\ handler[1].pc # "wait"
    /\ (watch /\ handler[1].pc = "wait") => skipped = {}

\* a recrawl of a watch build has discovered a package URL, skipped it and
\* returned: the URL has no output file
C8_Witness ==
    /\ watch
    /\ UrlPkgX \in DiscoveredSet
    /\ UrlPkgX \in skipped
    /\ UrlPkgX \notin written
    /\ handler[1].pc = "done"

\* C9: once the handler of a file-change notification has run, every URL
\* getUrlsForFile gives for the changed path is in DiscoveredSet.
C9_ChangedUrlsAreDiscovered ==
    \A i \in Handlers :
        handler[i].pc \in {"flush", "callback", "done"} =>
            Range(getUrlsForFile(handler[i].filePath)) \subseteq DiscoveredSet

NoDuplicates(seq) == \A j, k \in 1..Len(seq) : seq[j] = seq[k] => j = k

ActiveLoops == {p \in Procs : flush[p].st \in InFlight}

\* the loadUrl calls in flight
LoadsInFlight == {p \in Procs : flush[p].st = "load"}

\* C11: at every moment at most one loadUrl call is in flight and at most one
\* flushFileQueue loop is active; a file-change notification that arrives
\* while the recrawl of an earlier one is suspended at an await starts no
\* second loop.
C11_OneCrawlAtATime ==
    /\ Cardinality(LoadsInFlight) <= 1
    /\ Cardinality(ActiveLoops) <= 1

\* C12: when the callback of a file-change event is called, every URL of the
\* event's path outside the package prefix has had its output file written
\* since the event arrived, whatever the interleaving of overlapping events.
C12_CallbackAfterOwnCrawl ==
    \A i \in Handlers :
        handler[i].pc \in {"callback", "done"} =>
            \A u \in handler[i].stale : UnderPkgPrefix(u)

\* C13: a loadUrl, mkdirp or writeFile call that fails in pass 1 or pass 2,
\* or an installer call that fails, fails build(): the step that fails writes
\* no file, and from then on no loadUrl call, write, installer call, pass or
\* post-build step happens and the output tree stays as it was.
C13_FailureAbortsBuild ==
    /\ [](flush[0].st = "err" => pc = "failed")
    /\ [][/\ pc' = "failed" =>
              UNCHANGED <<written, loads, writes, installArgs, phases,
                          allFileUrlsToProcess>>
          /\ pc = "failed" =>
              UNCHANGED <<pc, flush, handler, written, loads, writes,
                          installArgs, installResults, phases>>]_vars

\* loadUrl has failed in pass 2 of a non-watch build, with a file written in
\* this pass and a URL still queued
C13_Witness ==
    /\ pc = "failed"
    /\ flush[0].st = "err"
    /\ ~watch
    /\ Len(phases) = 4
    /\ \E u \in written : writes[u] = 1
    /\ loads[flush[0].url] = 0
    /\ allFileUrlsToProcess # <<>>

UnoptimizedPostBuildSteps ==
    <<"removeEmptyFolders", "runPipelineCleanupStep", "shutdown">>
AllPostBuildSteps ==
    <<"runBuiltInOptimize", "runPipelineOptimizeStep">> \o UnoptimizedPostBuildSteps

\* C14 as stated: a non-watch build that returns has called, after pass 2,
\* built-in optimization, the plugin optimize step, the removal of empty
\* directories, the cleanup step and the server shutdown, in this order; a
\* watch build calls none of them.
C14_AllPostBuildStepsInOrder ==
    /\ watch => steps = <<>>
    /\ ~watch =>
        /\ IsPrefix(steps, AllPostBuildSteps)
        /\ pc = "done" => steps = AllPostBuildSteps

\* C14 amended: after pass 2 a non-watch build calls the removal of empty
\* directories, the cleanup step and the server shutdown in this order, each
\* when the one before has returned, preceded by built-in optimization and
\* the plugin optimize step only when the configuration asks for
\* optimization; no step is called before pass 2 has returned, and a watch
\* build calls none of them.
C14_PostBuildStepsInOrder ==
    /\ watch => steps = <<>>
    /\ ~watch =>
        /\ \/ IsPrefix(steps, AllPostBuildSteps)
           \/ IsPrefix(steps, UnoptimizedPostBuildSteps)
        /\ steps # <<>> => Len(phases) = 5 /\ flush[0].st = "none"
        /\ pc \in Range(AllPostBuildSteps) => Last(steps) = pc
        /\ pc = "done" => steps \in {AllPostBuildSteps, UnoptimizedPostBuildSteps}

\* a non-watch build has returned without having called an optimize step
C14_Witness ==
    /\ ~watch
    /\ pc = "done"
    /\ steps = UnoptimizedPostBuildSteps
    /\ written # {}

\* the subtree of directory dir holds a file
HasFileBelow(tree, dir) == \E file \in tree.files : IsPrefix(dir, file)

\* C15: removeEmptyFolders(root) removes exactly the directories strictly
\* below the root whose subtree holds no file; it leaves the root, every file
\* and every directory with a file in its subtree.
C15_RemovesEmptyBelowRoot ==
    rmReturn # "none" =>
        /\ disk.files = diskBefore.files
        /\ disk.dirs =
             {dir \in diskBefore.dirs : dir = Root \/ HasFileBelow(diskBefore, dir)}

\* pass 2 of build() has returned and no recrawl is running
CrawlsCompleted ==
    /\ Pass2Ended \/ pc \in {"watching"} \cup Range(PostBuildSteps)
    /\ \A i \in Handlers : handler[i].pc \in {"wait", "callback", "done"}

\* C16: when pass 2 has returned, and whenever every recrawl started since
\* has returned, the files the crawler has written are those of the URLs in
\* DiscoveredSet: every URL in DiscoveredSet has a written file and every
\* written file is for a URL in DiscoveredSet.
C16_OutputMirrorsDiscoveredSet ==
    CrawlsCompleted => written = DiscoveredSet

RECURSIVE CssRules(_, _)
\* the @import rules of a stylesheet from offset `from` on, left to right
CssRules(code, from) ==
    LET match == CssExec(code, from) IN
    IF match = NoMatch THEN <<>>
    ELSE <<match>> \o CssRules(code, match.index + match.length)

RECURSIVE Blocks(_, _, _)
\* the bodies of the inline blocks of a kind that are not blank, left to right
Blocks(code, from, kind) ==
    LET match == BlockExec(code, from, kind) IN
    IF match = NoMatch THEN <<>>
    ELSE (IF Trim(match.spec) # <<>> THEN <<match.spec>> ELSE <<>>)
         \o Blocks(code, match.index + match.length, kind)

\* the arguments of the dynamic imports of a script that the scanner reduces
\* to a literal
LiteralDynamicArgs(code) ==
    {Slice(code, imp.s, imp.e) :
        imp \in {i \in Range(scanCodeImportsExports(code)) : i.d > -1}}

\* every such argument is a bare double-quoted string
DoubleQuotedJs(code) ==
    \A arg \in LiteralDynamicArgs(code) :
        /\ arg[1] = DQ
        /\ arg[Len(arg)] = DQ
        /\ \A k \in 2..(Len(arg) - 1) : arg[k] \notin {DQ, "\\", " ", MagicComment}

\* some such argument is quoted with single quotes or is a template literal
OtherQuotedJs(code) ==
    \E arg \in LiteralDynamicArgs(code) : arg[Len(arg)] \in {SQ, BQ}

\* rule is written @import "spec"; and spec has no proxy suffix
PlainRule(code, rule) ==
    /\ Slice(code, rule.index, rule.index + rule.length)
         = <<"@import", " ", DQ>> \o rule.spec \o <<DQ, ";">>
    /\ ProxySuffix \notin Range(rule.spec)

PlainCss(code) == \A rule \in Range(CssRules(code, 0)) : PlainRule(code, rule)

\* the file is left as it is by the rewriter under the identity
FixpointForm(file) ==
    CASE file.baseExt = ".js" -> DoubleQuotedJs(file.contents)
      [] file.baseExt = ".css" -> PlainCss(file.contents)
      [] file.baseExt = ".html" ->
            /\ \A body \in Range(Blocks(file.contents, 0, "script")) : DoubleQuotedJs(body)
            /\ \A body \in Range(Blocks(file.contents, 0, "style")) : PlainCss(body)
      [] OTHER -> FALSE

\* the rewriter writes some import of the file in another form
NormalisedForm(file) ==
    CASE file.baseExt = ".js" -> OtherQuotedJs(file.contents)
      [] file.baseExt = ".css" -> ~PlainCss(file.contents)
      [] file.baseExt = ".html" ->
            \/ \E body \in Range(Blocks(file.contents, 0, "script")) : OtherQuotedJs(body)
            \/ \E body \in Range(Blocks(file.contents, 0, "style")) : ~PlainCss(body)
      [] OTHER -> FALSE

IdentityReturned == transformed.st = "returned" /\ replaceImport = "identity"

RECURSIVE Specs(_)
\* the specifiers of a list of rules
Specs(rules) ==
    IF rules = <<>> THEN <<>> ELSE <<Head(rules).spec>> \o Specs(Tail(rules))

\* the specifiers replace is due for a block body
BlockSpecs(kind, body) ==
    IF kind = "script"
    THEN transformEsmImports(body, "identity").calls
    ELSE Specs(CssRules(body, 0))

RECURSIVE AllBlockSpecs(_, _)
AllBlockSpecs(kind, bodies) ==
    IF bodies = <<>> THEN <<>>
    ELSE BlockSpecs(kind, Head(bodies)) \o AllBlockSpecs(kind, Tail(bodies))

\* C19: the rewriter of a stylesheet applies replace to the specifier of
\* each @import rule once, left to right, and the rewriter of a page rewrites
\* each inline script block and then each inline style block that is not
\* blank once, left to right, whatever the lengths of the texts spliced in.
C19_EachRuleAndBlockOnce ==
    transformed.st = "returned" =>
        /\ sourceFile.baseExt = ".css" =>
             transformed.calls = Specs(CssRules(sourceFile.contents, 0))
        /\ sourceFile.baseExt = ".html" =>
             transformed.calls =
                 AllBlockSpecs("script", Blocks(sourceFile.contents, 0, "script"))
                 \o AllBlockSpecs("style", Blocks(sourceFile.contents, 0, "style"))

\* the calls of the change callback made so far
CallbackCalls == UNION {Range(handler[i].calls) : i \in Handlers}

\* the handler invocations that call the callback in this step
Calling == {i \in Handlers : handler'[i].calls # handler[i].calls}

\* C18: the change callback of a watch build is one slot that the last
\* registration wins: the slot changes only by a registration, to the
\* callback registered; a recrawl calls once, with the filePath of its event,
\* the callback that is in the slot when its flush returns, so a callback
\* replaced by a later registration is not called again; the result of a
\* build that did not watch registers nothing, and its onFileChange and
\* shutdown throw.
C18_SingleSlotLastWins ==
    /\ [][/\ onFileChangeCallback' # onFileChangeCallback =>
               /\ watch /\ pc = "watching"
               /\ onFileChangeCallback' \in Callbacks
               /\ Calling = {}
          /\ \A i \in Calling :
               /\ handler'[i].calls =
                    <<[callback |-> onFileChangeCallback,
                       filePath |-> handler'[i].filePath]>>
               /\ handler[i].calls = <<>>
               /\ flush[i].st = "write" \/ handler[i].pc = "wait"
          /\ thrown' # thrown =>
               /\ ~watch /\ pc = "done"
               /\ thrown \subseteq thrown' /\ thrown' \subseteq ResultMethods
               /\ onFileChangeCallback' = onFileChangeCallback]_vars
    /\ [](~watch => onFileChangeCallback = NoopCallback /\ CallbackCalls = {})
    /\ [](watch => thrown = {})

\* the first recrawl has called cb1, cb2 was registered after it, and the
\* second recrawl has called cb2
C18_Witness ==
    /\ watch
    /\ handler[1].calls = <<[callback |-> "cb1", filePath |-> "fb"]>>
    /\ handler[2].calls = <<[callback |-> "cb2", filePath |-> "fab"]>>
    /\ onFileChangeCallback = "cb2"

\* devServer.shutdown() has been called
ShutdownCalled == "shutdown" \in Range(steps)

\* C20: a build that does not watch has called devServer.shutdown() when it
\* has returned or rejected, whichever call failed; and no loadUrl call is in
\* flight once the server has been shut down.
C20_ServerShutDownOnEveryPath ==
    /\ (~watch /\ pc \in {"done", "failed"}) => ShutdownCalled
    /\ \A p \in Procs : flush[p].st = "load" => ~ShutdownCalled

====
